---- MODULE Spec2Model ----
(***************************************************************************)
(* Pro Stock Screener (src/app.py): the session state, the alert log, the  *)
(* Polygon feed listener with its two bounded trade logs, and the 0DTE     *)
(* gamma-exposure / unusual-options computation with its TTL cache.        *)
(*                                                                         *)
(* Numbers: implied volatility is carried in hundredths (20 = 0.20),       *)
(* prices in thousandths of a dollar, ratios in hundredths, gamma exposure *)
(* in whole dollars.  Sums are exact integer sums (the float sums of the   *)
(* program are modelled without rounding error).                           *)
(***************************************************************************)
EXTENDS Integers, Sequences, FiniteSets, TLC

VARIABLES
    alerts,             \* st.session_state.alerts
    alert_log,          \* st.session_state.alert_log
    live_trades,        \* st.session_state.live_trades
    dark_pool_prints,   \* st.session_state.dark_pool_prints
    alertCalls,         \* history: the entries trigger_alert was called to record
    alertRaised,        \* the exception the last trigger_alert call ended with
    allBlocks,          \* history: every record appended to live_trades
    darkBlocks,         \* history: every record appended to dark_pool_prints
    lastFrame,          \* the frame the last on_message call handled
    nFree,              \* number of freely chosen frames handled so far
    pc,                 \* listener thread: the line of on_message it is about to run
    pending,            \* listener thread: the events of the frame still to handle
    seen,               \* refresh loop: the log it last read, as it read it
    gexCall,            \* the ticker, date and market data of the last computation
    gexOutcome,         \* what that computation returned, or that it raised
    now,                \* the clock, in seconds
    cache,              \* st.cache_data of compute_0dte_gex_and_unusual, by ticker
    served              \* what the last cached call returned, and from when

feedVars == <<live_trades, dark_pool_prints, allBlocks, darkBlocks, lastFrame, nFree>>
threadVars == <<pc, pending, seen>>
alertVars == <<alerts, alert_log, alertCalls, alertRaised>>
gexVars == <<gexCall, gexOutcome>>
cacheVars == <<cache, served>>
vars == <<alerts, alert_log, live_trades, dark_pool_prints, alertCalls,
          alertRaised, allBlocks, darkBlocks, lastFrame, nFree, pc, pending, seen,
          gexCall, gexOutcome, now, cache, served>>

(***************************************************************************)
(* Python values                                                           *)
(***************************************************************************)
PyList(items) == [kind |-> "list", items |-> items]
PyDict == [kind |-> "dict", items |-> <<>>]

\* seq[-n:] for n > 0
LastN(seq, n) == IF Len(seq) <= n THEN seq ELSE SubSeq(seq, Len(seq) - n + 1, Len(seq))

\* key.endswith(ch), a key being the sequence of its characters
EndsWith(key, ch) == Len(key) > 0 /\ key[Len(key)] = ch

\* strftime("%H:%M:%S") of a time in seconds, as <<HH, MM, SS>> (UTC)
StrfTime(seconds) ==
    LET secs == seconds % (24 * 60 * 60)
    IN  <<secs \div 3600, (secs % 3600) \div 60, secs % 60>>

(***************************************************************************)
(* Session state (lines 19-21)                                             *)
(***************************************************************************)
KeyAlerts == <<"a", "l", "e", "r", "t", "s">>
KeyAlertLog == <<"a", "l", "e", "r", "t", "_", "l", "o", "g">>
KeyLiveTrades == <<"l", "i", "v", "e", "_", "t", "r", "a", "d", "e", "s">>
KeyDarkPoolPrints == <<"d", "a", "r", "k", "_", "p", "o", "o", "l", "_",
                       "p", "r", "i", "n", "t", "s">>

\* [] if key.endswith("s") else {}
SessionDefault(key) == IF EndsWith(key, "s") THEN PyList(<<>>) ELSE PyDict

(***************************************************************************)
(* The clock                                                               *)
(***************************************************************************)
Lead == 100          \* the run starts this many seconds before midnight
Horizon == 240       \* and is followed for this many seconds
Refresh == 20        \* time.sleep(20) of the refresh loop: the clock's step

StartClock == (24 * 60 * 60) - Lead

\* date.today()
Today(t) == t \div (24 * 60 * 60)

Tick ==
    /\ now + Refresh <= StartClock + Horizon
    /\ now' = now + Refresh
    /\ served' = [served EXCEPT !.called = FALSE]
    /\ UNCHANGED <<feedVars, threadVars, alertVars, gexVars, cache>>

(***************************************************************************)
(* Alert engine (lines 24-29)                                              *)
(***************************************************************************)
AlertCap == 50
MaxAlerts == 2       \* calls of trigger_alert

Titles == {"GEX flip", "Dark pool"}
Messages == {"SPY", "NVDA 15,000 @ $120.46"}

trigger_alert(title, message) ==
    LET ts == StrfTime(now)
        entry == [time |-> ts, title |-> title, message |-> message]
    IN  /\ alertCalls' = Append(alertCalls, entry)
        /\ IF alert_log.kind = "list"
           THEN /\ alert_log' = PyList(LastN(Append(alert_log.items, entry), AlertCap))
                /\ alertRaised' = "None"
           ELSE \* line 27: 'dict' object has no attribute 'append'
                /\ alert_log' = alert_log
                /\ alertRaised' = "AttributeError"
        /\ UNCHANGED <<alerts, feedVars, threadVars, gexVars, now, cacheVars>>

TriggerAlert ==
    /\ Len(alertCalls) < MaxAlerts
    /\ \E title \in Titles, message \in Messages : trigger_alert(title, message)

(***************************************************************************)
(* Feed listener (lines 105-121)                                           *)
(***************************************************************************)
BlockSize == 15000
DarkVenue == 4
LiveCap == 200
DarkCap == 100

\* msg.get(field, default)
Get(msg, field, default) == IF field \in DOMAIN msg THEN msg[field] ELSE default

\* msg.get(field) == value (an absent field gives None, equal to no value)
GetEquals(msg, field, value) == field \in DOMAIN msg /\ msg[field] = value

\* datetime.fromtimestamp(t/1000).strftime("%H:%M:%S")
FormatTime(t) == StrfTime(t \div 1000)

\* f"${p:.2f}": p in thousandths of a dollar, as <<dollars, cents>>, half to even
FormatPrice(p) ==
    LET q == p \div 10
        r == p % 10
        cents == IF r > 5 \/ (r = 5 /\ q % 2 = 1) THEN q + 1 ELSE q
    IN  <<cents \div 100, cents % 100>>

\* f"{s:,}": the groups of three digits, most significant first
RECURSIVE FormatSize(_)
FormatSize(s) == IF s < 1000 THEN <<s>> ELSE Append(FormatSize(s \div 1000), s % 1000)

\* the trade dict of lines 109-115
TradeRecord(msg) ==
    [Time   |-> FormatTime(msg.t),
     Symbol |-> msg.sym,
     Price  |-> FormatPrice(msg.p),
     Size   |-> FormatSize(msg.s),
     Venue  |-> IF GetEquals(msg, "x", DarkVenue) THEN "Dark Pool" ELSE "Lit"]

IsBlockTrade_Strict(msg) == GetEquals(msg, "ev", "T") /\ Get(msg, "s", 0) > BlockSize

\* line 108
IsBlockTrade(msg) == GetEquals(msg, "ev", "T") /\ Get(msg, "s", 0) >= BlockSize

\* line 119
IsDark(msg) == GetEquals(msg, "x", DarkVenue)

AppendLive_KeepFirst(log, trade) ==
    IF Len(log) < LiveCap THEN Append(log, trade) ELSE SubSeq(Append(log, trade), 1, LiveCap)

\* lines 116-117: append, then keep the last 200
AppendLive(log, trade) == LastN(Append(log, trade), LiveCap)

\* lines 120-121: append, then keep the last 100
AppendDark(log, trade) == LastN(Append(log, trade), DarkCap)

\* one iteration of the loop of line 107 on the pair of logs
HandleMsg(logs, msg) ==
    IF IsBlockTrade(msg)
    THEN [live |-> AppendLive(logs.live, TradeRecord(msg)),
          dark |-> IF IsDark(msg)
                   THEN AppendDark(logs.dark, TradeRecord(msg))
                   ELSE logs.dark]
    ELSE logs

\* the loop of line 107 over a frame
RECURSIVE HandleFrame(_, _)
HandleFrame(logs, frame) ==
    IF frame = <<>> THEN logs
    ELSE HandleFrame(HandleMsg(logs, Head(frame)), Tail(frame))

\* the records a frame appends to the all-trades log, and to the dark-pool log
RECURSIVE BlocksOf(_)
BlocksOf(frame) ==
    IF frame = <<>> THEN <<>>
    ELSE (IF IsBlockTrade(Head(frame)) THEN <<TradeRecord(Head(frame))>> ELSE <<>>)
         \o BlocksOf(Tail(frame))

RECURSIVE DarkBlocksOf(_)
DarkBlocksOf(frame) ==
    IF frame = <<>> THEN <<>>
    ELSE (IF IsBlockTrade(Head(frame)) /\ IsDark(Head(frame))
          THEN <<TradeRecord(Head(frame))>> ELSE <<>>)
         \o DarkBlocksOf(Tail(frame))

(***************************************************************************)
(* Feed inputs                                                             *)
(***************************************************************************)
WarmUp == 200        \* frames of the deterministic start of the feed
MaxFree == 1         \* freely chosen frames after it
MaxFrameLen == 2     \* events per freely chosen frame

QuoteMsg == [ev |-> "Q", sym |-> "SPY", s |-> 20000, t |-> 34200000, p |-> 500000, x |-> 4]
SmallTrade == [ev |-> "T", sym |-> "AAPL", s |-> 14999, t |-> 34201000, p |-> 190125, x |-> 4]
DarkBlock == [ev |-> "T", sym |-> "NVDA", s |-> 15000, t |-> 34202000, p |-> 120455, x |-> 4]
LitBlock == [ev |-> "T", sym |-> "TSLA", s |-> 1250000, t |-> 86399000, p |-> 250996, x |-> 1]
NoVenueBlock == [ev |-> "T", sym |-> "TSLA", s |-> 1250000, t |-> 86399000, p |-> 250996]

Msgs == {QuoteMsg, SmallTrade, DarkBlock, LitBlock, NoVenueBlock}

Frames == UNION {[1..n -> Msgs] : n \in 1..MaxFrameLen}

\* the k-th frame of the start of the feed: dark and lit blocks alternate
WarmUpFrame(k) == IF k % 2 = 0 THEN <<DarkBlock>> ELSE <<LitBlock>>

on_message(frame) ==
    LET logs == HandleFrame([live |-> live_trades.items, dark |-> dark_pool_prints.items],
                            frame)
    IN  /\ live_trades' = PyList(logs.live)
        /\ dark_pool_prints' = PyList(logs.dark)
        /\ allBlocks' = allBlocks \o BlocksOf(frame)
        /\ darkBlocks' = darkBlocks \o DarkBlocksOf(frame)
        /\ lastFrame' = frame
        /\ UNCHANGED <<alertVars, threadVars, gexVars, now, cacheVars>>

OnMessage ==
    \/ /\ Len(allBlocks) < WarmUp
       /\ nFree = 0
       /\ on_message(WarmUpFrame(Len(allBlocks)))
       /\ UNCHANGED nFree
    \/ /\ Len(allBlocks) >= WarmUp
       /\ nFree < MaxFree
       /\ \E frame \in Frames : on_message(frame)
       /\ nFree' = nFree + 1

(***************************************************************************)
(* 0DTE GEX and unusual options (lines 33-100)                             *)
(***************************************************************************)
\* a missing openInterest / volume cell of the chain: float NaN
NaN == -1

\* Python's comparisons: any comparison with NaN is False
Lt(a, b) == a # NaN /\ b # NaN /\ a < b
Le(a, b) == a # NaN /\ b # NaN /\ a <= b
Gt(a, b) == a # NaN /\ b # NaN /\ a > b

\* `x or 0`: 0 is the only falsy number (NaN is truthy)
OrZero(x) == IF x = 0 THEN 0 ELSE x

\* the values of a returned tuple
None == [tag |-> "None"]
Num(v) == [tag |-> "num", v |-> v]
Str(v) == [tag |-> "str", v |-> v]
DataFrame(rows) == [tag |-> "DataFrame", rows |-> rows]
Series(row) == [tag |-> "Series", row |-> row]

\* lines 63-65 for one contract of open interest 1: gamma * 100 * spot**2 * 0.01
\* with T = 1/365 and r = 0.05, to the nearest dollar
UnitGex(spot, K, iv) ==
    CASE spot = 500 /\ K = 495 /\ iv = 20 -> 11807
      [] spot = 500 /\ K = 500 /\ iv = 20 -> 19051
      [] spot = 500 /\ K = 495 /\ iv = 50 -> 7029
      [] spot = 500 /\ K = 500 /\ iv = 50 -> 7621

RowGex_Unsigned(spot, row) ==
    IF row.openInterest = NaN THEN NaN
    ELSE UnitGex(spot, row.strike, row.impliedVolatility) * OrZero(row.openInterest)

\* lines 63-67: the signed exposure of a row that passed line 60
RowGex(spot, row) ==
    LET gex == IF row.openInterest = NaN THEN NaN
               ELSE UnitGex(spot, row.strike, row.impliedVolatility)
                    * OrZero(row.openInterest)
    IN  IF row.type = "Put" /\ gex # NaN THEN 0 - gex ELSE gex

\* line 60: the row is skipped
Skipped(row) == Lt(OrZero(row.openInterest), 10) \/ Le(row.impliedVolatility, 1)

\* line 80
IsUnusual(row) ==
    /\ Gt(OrZero(row.volume), OrZero(row.openInterest))
    /\ Gt(OrZero(row.openInterest), 0)

\* round(vol / oi, 2) in hundredths (a tie goes to the even hundredth)
RoundRatio(vol, oi) ==
    LET q == (100 * vol) \div oi
        r == (100 * vol) % oi
    IN  IF 2 * r > oi \/ (2 * r = oi /\ q % 2 = 1) THEN q + 1 ELSE q

\* lines 69-77
DataRow(spot, row) ==
    [strike |-> row.strike, type |-> row.type, oi |-> OrZero(row.openInterest),
     volume |-> OrZero(row.volume), gex |-> RowGex(spot, row),
     iv |-> row.impliedVolatility]

\* lines 81-88
UnusualRow(spot, row) ==
    [strike |-> row.strike, type |-> row.type, volume |-> OrZero(row.volume),
     oi |-> OrZero(row.openInterest),
     ratio |-> RoundRatio(OrZero(row.volume), OrZero(row.openInterest)),
     price |-> spot]

\* the loop of lines 54-88: the lists data and unusual
RECURSIVE LoopRows(_, _, _)
LoopRows(spot, df, acc) ==
    IF df = <<>> THEN acc
    ELSE LET row == Head(df)
         IN  IF Skipped(row) THEN LoopRows(spot, Tail(df), acc)
             ELSE LoopRows(spot, Tail(df),
                      [data |-> Append(acc.data, DataRow(spot, row)),
                       unusual |-> IF IsUnusual(row)
                                   THEN Append(acc.unusual, UnusualRow(spot, row))
                                   ELSE acc.unusual])

\* chain.calls.assign(type=...) (lines 42-43)
RECURSIVE AssignType(_, _)
AssignType(legs, type) ==
    IF legs = <<>> THEN <<>>
    ELSE <<[strike |-> Head(legs).strike,
            impliedVolatility |-> Head(legs).impliedVolatility,
            openInterest |-> Head(legs).openInterest,
            volume |-> Head(legs).volume,
            type |-> type]>> \o AssignType(Tail(legs), type)

\* pandas sum of a column over the rows of one strike, NaN cells skipped
RECURSIVE SumAt(_, _, _)
SumAt(data, K, col) ==
    IF data = <<>> THEN 0
    ELSE (IF Head(data).strike = K /\ Head(data)[col] # NaN THEN Head(data)[col] ELSE 0)
         + SumAt(Tail(data), K, col)

\* the keys of a groupby, ascending
RECURSIVE Ascending(_)
Ascending(S) ==
    IF S = {} THEN <<>>
    ELSE LET m == CHOOSE x \in S : \A y \in S : x <= y
         IN  <<m>> \o Ascending(S \ {m})

\* line 91: gex_df.groupby("strike").agg({"gex": "sum", "oi": "sum"}).reset_index()
GroupByStrike(data) ==
    LET keys == Ascending({data[i].strike : i \in 1..Len(data)})
    IN  [k \in 1..Len(keys) |->
            [strike |-> keys[k], gex |-> SumAt(data, keys[k], "gex"),
             oi |-> SumAt(data, keys[k], "oi")]]

\* line 92: agg["gex"].sum()
RECURSIVE SumGex(_)
SumGex(agg) == IF agg = <<>> THEN 0 ELSE Head(agg).gex + SumGex(Tail(agg))

Abs(x) == IF x < 0 THEN 0 - x ELSE x

IdxMax_Last(agg) ==
    CHOOSE i \in 1..Len(agg) :
        /\ \A j \in 1..Len(agg) : Abs(agg[j].gex) <= Abs(agg[i].gex)
        /\ \A j \in (i + 1)..Len(agg) : Abs(agg[j].gex) < Abs(agg[i].gex)

\* line 93: agg["gex"].abs().idxmax(), the first row holding the maximum
IdxMax(agg) ==
    CHOOSE i \in 1..Len(agg) :
        /\ \A j \in 1..Len(agg) : Abs(agg[j].gex) <= Abs(agg[i].gex)
        /\ \A j \in 1..(i - 1) : Abs(agg[j].gex) < Abs(agg[i].gex)

Raise(type, msg) == [raised |-> TRUE, type |-> type, msg |-> msg]
Return(value) == [raised |-> FALSE, value |-> value]

\* lines 49-97
ComputeRows(spot, df) ==
    LET lists == LoopRows(spot, df, [data |-> <<>>, unusual |-> <<>>])
        agg == GroupByStrike(lists.data)
    IN  IF lists.data = <<>>
        THEN Raise("KeyError", "'strike'")      \* line 91 on a frame without columns
        ELSE Return(<<DataFrame(agg), Num(spot), Num(SumGex(agg)),
                      Series(agg[IdxMax(agg)]),
                      IF lists.unusual = <<>> THEN None
                      ELSE DataFrame(lists.unusual)>>)

\* lines 35-97: the body of the try
TryBody(ticker, today, yf) ==
    LET stock == yf[ticker]
        df == AssignType(stock.calls, "Call") \o AssignType(stock.puts, "Put")
    IN  IF stock.history = "error"
        THEN Raise("ConnectionError", "history")
        ELSE IF stock.history = "empty"
        THEN Raise("IndexError", "single positional indexer is out-of-bounds")
        ELSE IF stock.expirations = "error"
        THEN Raise("ConnectionError", "options")
        ELSE IF today \notin stock.options
        THEN Return(<<None, Num(stock.spot), Str("No 0DTE contracts today"), None>>)
        ELSE IF stock.chain = "error"
        THEN Raise("ConnectionError", "option_chain")
        ELSE IF df = <<>> \/ "volume" \notin stock.columns
                \/ "openInterest" \notin stock.columns
        THEN Return(<<None, Num(stock.spot), Str("No volume/OI data"), None>>)
        ELSE IF "strike" \notin stock.columns
        THEN Raise("KeyError", "'strike'")
        ELSE IF "impliedVolatility" \notin stock.columns
        THEN Raise("KeyError", "'impliedVolatility'")
        ELSE ComputeRows(stock.spot, df)

\* the exception types `except Exception` catches
Caught == {"ConnectionError", "IndexError", "KeyError"}

ExceptHandler_KeyErrorOnly(e) ==
    IF e.type = "KeyError"
    THEN [escaped |-> FALSE,
          value |-> <<None, Num(0), Str("Error: " \o e.msg), None, None>>]
    ELSE [escaped |-> TRUE, value |-> <<>>]

\* lines 99-100
ExceptHandler(e) ==
    IF e.type \in Caught
    THEN [escaped |-> FALSE,
          value |-> <<None, Num(0), Str("Error: " \o e.msg), None, None>>]
    ELSE [escaped |-> TRUE, value |-> <<>>]

\* lines 33-100
compute_0dte_gex_and_unusual(ticker, today, yf) ==
    LET r == TryBody(ticker, today, yf)
    IN  IF r.raised THEN ExceptHandler(r)
        ELSE [escaped |-> FALSE, value |-> r.value]

(***************************************************************************)
(* Market data                                                             *)
(***************************************************************************)
MaxRows == 3        \* contracts of a chain, calls and puts together

Tickers == {"SPY", "QQQ"}
AllColumns == {"strike", "impliedVolatility", "openInterest", "volume"}

Leg(K, iv, oi, vol) ==
    [strike |-> K, impliedVolatility |-> iv, openInterest |-> oi, volume |-> vol]

Legs ==
    {Leg(495, 20, q[1], q[2]) :
        q \in {<<1000, 200>>, <<40, 50>>, <<5, 8>>, <<0, 8>>, <<NaN, 200>>,
               <<1000, NaN>>}}
    \cup {Leg(500, 20, q[1], q[2]) : q \in {<<1000, 200>>, <<40, 50>>, <<NaN, 200>>}}
    \cup {Leg(495, 1, 1000, 2000)}

\* the (calls, puts) chains of at most n contracts
Chains(n) ==
    UNION {[1..k[1] -> Legs] \X [1..k[2] -> Legs] :
              k \in {c \in (0..n) \X (0..n) : c[1] + c[2] <= n}}

\* history, expirations, chain: "ok", or how the request fails
Stock(history, expirations, options, chain, columns, calls, puts) ==
    [history |-> history, spot |-> 500, expirations |-> expirations,
     options |-> options, chain |-> chain, columns |-> columns,
     calls |-> calls, puts |-> puts]

\* what yfinance can answer for one ticker on day 0
Stocks ==
    {Stock(h, "ok", {0, 7}, "ok", AllColumns, <<>>, <<>>) : h \in {"error", "empty"}}
    \cup {Stock("ok", "error", {0, 7}, "ok", AllColumns, <<>>, <<>>)}
    \cup {Stock("ok", "ok", o, c, AllColumns, <<Leg(500, 20, 1000, 200)>>, <<>>) :
            o \in {{}, {7}}, c \in {"ok", "error"}}
    \cup {Stock("ok", "ok", {0, 7}, "error", AllColumns, <<>>, <<>>)}
    \cup {Stock("ok", "ok", {0, 7}, "ok", AllColumns \ {c},
                <<Leg(500, 20, 1000, 200)>>, <<>>) : c \in AllColumns}
    \cup {Stock("ok", "ok", {0, 7}, "ok", AllColumns, c[1], c[2]) : c \in Chains(MaxRows)}

\* the calls of the function: a ticker on day 0 and what yfinance answers for it
GexCalls == {[ticker |-> "SPY", today |-> 0, stock |-> st] : st \in Stocks}

NotCalled == [done |-> FALSE, escaped |-> FALSE, value |-> <<>>]

GexCall ==
    /\ ~gexOutcome.done
    /\ gexOutcome' =
          [done |-> TRUE] @@
          compute_0dte_gex_and_unusual(gexCall.ticker, gexCall.today,
                                       [t \in Tickers |-> gexCall.stock])
    /\ UNCHANGED <<gexCall, feedVars, threadVars, alertVars, now, cacheVars>>

(***************************************************************************)
(* The cached function (line 32, called at line 172)                       *)
(***************************************************************************)
TTL == 120

\* what yfinance answers in this run: both tickers list the expiration of day 1
YFinance ==
    [t \in Tickers |->
        Stock("ok", "ok", {1}, "ok", AllColumns,
              IF t = "SPY" THEN <<Leg(500, 20, 1000, 200)>> ELSE <<>>,
              IF t = "SPY" THEN <<>> ELSE <<Leg(495, 20, 40, 50)>>)]

NoEntry == [stored |-> FALSE]

\* st.cache_data keys an entry by the function's arguments: the ticker
CacheKey(ticker, today) == ticker

\* the entry of the key is there and younger than the ttl
Fresh(key) == cache[key].stored /\ now - cache[key].storedAt < TTL

\* result = compute_0dte_gex_and_unusual(ticker) at line 172
CachedCall(ticker) ==
    LET key == CacheKey(ticker, Today(now))
        entry == [stored |-> TRUE, storedAt |-> now,
                  forTicker |-> ticker, asOf |-> Today(now),
                  value |-> compute_0dte_gex_and_unusual(ticker, Today(now), YFinance)]
    IN  /\ IF Fresh(key)
           THEN /\ served' = [called |-> TRUE, ticker |-> ticker, at |-> now, hit |-> TRUE,
                              entry |-> cache[key]]
                /\ UNCHANGED cache
           ELSE /\ served' = [called |-> TRUE, ticker |-> ticker, at |-> now, hit |-> FALSE,
                              entry |-> entry]
                /\ cache' = [cache EXCEPT ![key] = entry]
        /\ UNCHANGED <<feedVars, threadVars, alertVars, gexVars, now>>

Rerun == \E ticker \in Tickers : CachedCall(ticker)

(***************************************************************************)
(* Start-up                                                                *)
(***************************************************************************)
InitSession ==
    /\ alerts = SessionDefault(KeyAlerts)
    /\ alert_log = SessionDefault(KeyAlertLog)
    /\ live_trades = SessionDefault(KeyLiveTrades)
    /\ dark_pool_prints = SessionDefault(KeyDarkPoolPrints)
    /\ alertCalls = <<>>
    /\ alertRaised = "None"
    /\ allBlocks = <<>>
    /\ darkBlocks = <<>>
    /\ lastFrame = <<>>
    /\ nFree = 0
    /\ pc = "idle"
    /\ pending = <<>>
    /\ seen = [log |-> "none", items |-> <<>>]
    /\ now = StartClock
    /\ cache = [k \in Tickers |-> NoEntry]
    /\ served = [called |-> FALSE, ticker |-> "SPY", at |-> StartClock, hit |-> FALSE,
                 entry |-> NoEntry]

Init ==
    /\ InitSession
    /\ gexCall = [ticker |-> "SPY", today |-> 0,
                  stock |-> Stock("ok", "ok", {}, "ok", AllColumns, <<>>, <<>>)]
    /\ gexOutcome = NotCalled

\* the start of one computation, for every call of GexCalls
InitGex ==
    /\ InitSession
    /\ gexCall \in GexCalls
    /\ gexOutcome = NotCalled

NextFeed == OnMessage
SpecFeed == Init /\ [][NextFeed]_vars

NextAlert == TriggerAlert \/ Tick
SpecAlert == Init /\ [][NextAlert]_vars

NextCache == Rerun \/ Tick
SpecCache == Init /\ [][NextCache]_vars

NextGex == GexCall
SpecGex == InitGex /\ [][NextGex]_vars

(***************************************************************************)
(* The listener thread line by line, beside the refresh loop               *)
(* (threading.Thread of line 135; the readers of lines 147-149, 157-158).  *)
(* The refresh loop's reads are followed once the start of the feed has    *)
(* been handled.                                                           *)
(***************************************************************************)
\* line 108 on the events that follow: the ones it skips are dropped
RECURSIVE SkipToBlock(_)
SkipToBlock(msgs) ==
    IF msgs = <<>> \/ IsBlockTrade(Head(msgs)) THEN msgs ELSE SkipToBlock(Tail(msgs))

\* the line the thread runs next, the events `msgs` being left
LineFor(msgs) == IF msgs = <<>> THEN "idle" ELSE "l116"

Receive(frame) ==
    /\ pc = "idle"
    /\ pending' = SkipToBlock(frame)
    /\ pc' = LineFor(pending')
    /\ lastFrame' = frame
    /\ UNCHANGED <<live_trades, dark_pool_prints, allBlocks, darkBlocks, seen, alertVars, gexVars, now, cacheVars>>

ReceiveFrame ==
    \/ /\ Len(allBlocks) < WarmUp
       /\ nFree = 0
       /\ Receive(WarmUpFrame(Len(allBlocks)))
       /\ UNCHANGED nFree
    \/ /\ Len(allBlocks) >= WarmUp
       /\ nFree < MaxFree
       /\ \E frame \in Frames : Receive(frame)
       /\ nFree' = nFree + 1

\* line 116: st.session_state.live_trades.append(trade)
Line116 ==
    /\ pc = "l116"
    /\ live_trades' = PyList(Append(live_trades.items, TradeRecord(Head(pending))))
    /\ allBlocks' = Append(allBlocks, TradeRecord(Head(pending)))
    /\ pc' = "l117"
    /\ UNCHANGED <<dark_pool_prints, darkBlocks, lastFrame, nFree, pending, seen, alertVars, gexVars, now, cacheVars>>

\* line 117: st.session_state.live_trades = st.session_state.live_trades[-200:]
Line117 ==
    /\ pc = "l117"
    /\ live_trades' = PyList(LastN(live_trades.items, LiveCap))
    /\ IF IsDark(Head(pending))
       THEN pc' = "l120" /\ UNCHANGED pending
       ELSE pending' = SkipToBlock(Tail(pending)) /\ pc' = LineFor(pending')
    /\ UNCHANGED <<dark_pool_prints, allBlocks, darkBlocks, lastFrame, nFree, seen, alertVars, gexVars, now, cacheVars>>

\* line 120: st.session_state.dark_pool_prints.append(trade)
Line120 ==
    /\ pc = "l120"
    /\ dark_pool_prints' = PyList(Append(dark_pool_prints.items, TradeRecord(Head(pending))))
    /\ darkBlocks' = Append(darkBlocks, TradeRecord(Head(pending)))
    /\ pc' = "l121"
    /\ UNCHANGED <<live_trades, allBlocks, lastFrame, nFree, pending, seen, alertVars, gexVars, now, cacheVars>>

\* line 121: st.session_state.dark_pool_prints = st.session_state.dark_pool_prints[-100:]
Line121 ==
    /\ pc = "l121"
    /\ dark_pool_prints' = PyList(LastN(dark_pool_prints.items, DarkCap))
    /\ pending' = SkipToBlock(Tail(pending))
    /\ pc' = LineFor(pending')
    /\ UNCHANGED <<live_trades, allBlocks, darkBlocks, lastFrame, nFree, seen, alertVars, gexVars, now, cacheVars>>

\* tab1, lines 147-149: the refresh loop reads st.session_state.live_trades
ReadLiveTrades ==
    /\ Len(allBlocks) >= WarmUp
    /\ seen' = [log |-> "live_trades", items |-> live_trades.items]
    /\ UNCHANGED <<feedVars, pc, pending, alertVars, gexVars, now, cacheVars>>

\* tab2, lines 157-158: the refresh loop reads st.session_state.dark_pool_prints
ReadDarkPoolPrints ==
    /\ Len(allBlocks) >= WarmUp
    /\ seen' = [log |-> "dark_pool_prints", items |-> dark_pool_prints.items]
    /\ UNCHANGED <<feedVars, pc, pending, alertVars, gexVars, now, cacheVars>>

NextThreads ==
    \/ ReceiveFrame
    \/ Line116
    \/ Line117
    \/ Line120
    \/ Line121
    \/ ReadLiveTrades
    \/ ReadDarkPoolPrints
SpecThreads == Init /\ [][NextThreads]_vars

(***************************************************************************)
(* Properties of the feed listener                                         *)
(***************************************************************************)
Min(a, b) == IF a <= b THEN a ELSE b

\* `log` is exactly the last min(Len(history), cap) records of `history`, in order
IsTailOf(log, history, cap) ==
    /\ Len(log) = Min(Len(history), cap)
    /\ \A i \in 1..Len(log) : log[i] = history[Len(history) - Len(log) + i]

\* C2: after every handled frame (hence after every handled trade event) the
\* all-trades log is the last min(n, 200) block records and the dark-pool log the
\* last min(m, 100) dark block records, in arrival order; neither exceeds its
\* capacity.
C2_LogsHoldLastRecords ==
    /\ IsTailOf(live_trades.items, allBlocks, 200)
    /\ IsTailOf(dark_pool_prints.items, darkBlocks, 100)
    /\ Len(live_trades.items) <= 200
    /\ Len(dark_pool_prints.items) <= 100

C2_Witness ==
    /\ nFree > 0
    /\ Len(allBlocks) > 200
    /\ Len(darkBlocks) > 100
    /\ live_trades.items[1] # allBlocks[1]

\* C3 (as claimed): whatever the interleaving, a log the refresh loop reads is
\* never longer than its capacity (200 for live_trades, 100 for dark_pool_prints).
C3_ReaderNeverSeesOverfullLog ==
    /\ seen.log = "live_trades" => Len(seen.items) <= 200
    /\ seen.log = "dark_pool_prints" => Len(seen.items) <= 100

\* `new` is `old` with one record of that label and symbol appended as its
\* newest, the oldest dropped beyond `cap`
IsAppended(old, new, label, sym, cap) ==
    /\ Len(new) = Min(Len(old) + 1, cap)
    /\ Len(new) >= 1
    /\ new[Len(new)].Venue = label
    /\ new[Len(new)].Symbol = sym
    /\ \A i \in 1..(Len(new) - 1) : new[i] = old[Len(old) + 1 - Len(new) + i]

IsTradeOfSize(e) == e.ev = "T" /\ "s" \in DOMAIN e /\ e.s >= 15000

HasVenue4(e) == "x" \in DOMAIN e /\ e.x = 4

Chain == AssignType(gexCall.stock.calls, "Call") \o AssignType(gexCall.stock.puts, "Put")
Returned == gexOutcome.value
Succeeded == gexOutcome.done /\ ~gexOutcome.escaped /\ Returned[1].tag = "DataFrame"
GexRows == Returned[1].rows
UnusualRows == IF Returned[5].tag = "None" THEN <<>> ELSE Returned[5].rows

\* an absent openInterest or volume counts as 0
Present(x) == IF x = NaN THEN 0 ELSE x

\* the contract has openInterest > 0 and volume > openInterest
Qualifies(c) == Present(c.openInterest) > 0 /\ Present(c.volume) > Present(c.openInterest)

\* the contract has openInterest >= 10 and impliedVolatility > 0.01
Eligible(c) == Present(c.openInterest) >= 10 /\ c.impliedVolatility > 1

\* C1 (as claimed): on success the unusual rows are, one for one, the contracts
\* with openInterest > 0 and volume > openInterest, whatever the GEX filter
\* says of them.
C1_UnusualIsExactlyVolumeAboveOI ==
    Succeeded =>
        \A c \in {Chain[i] : i \in 1..Len(Chain)} \cup
                 {[strike |-> u.strike, type |-> u.type, openInterest |-> u.oi,
                   volume |-> u.volume, impliedVolatility |-> iv] :
                     u \in {UnusualRows[i] : i \in 1..Len(UnusualRows)}, iv \in {1, 20}} :
            Cardinality({i \in 1..Len(UnusualRows) :
                            /\ UnusualRows[i].strike = c.strike
                            /\ UnusualRows[i].type = c.type
                            /\ UnusualRows[i].volume = Present(c.volume)
                            /\ UnusualRows[i].oi = Present(c.openInterest)})
            = Cardinality({i \in 1..Len(Chain) :
                            /\ Qualifies(Chain[i])
                            /\ Chain[i].strike = c.strike
                            /\ Chain[i].type = c.type
                            /\ Chain[i].volume = c.volume
                            /\ Chain[i].openInterest = c.openInterest})

\* the same, for the chains that miss no openInterest or volume cell
C1_WithoutMissingCells ==
    (\A i \in 1..Len(Chain) : Chain[i].openInterest # NaN /\ Chain[i].volume # NaN)
        => C1_UnusualIsExactlyVolumeAboveOI

\* the signed exposure the eligible contracts of the chain hold at strike K
SignedGexAt(K) ==
    LET S[i \in 0..Len(Chain)] ==
            IF i = 0 THEN 0
            ELSE S[i - 1] +
                 (IF Chain[i].strike = K /\ Eligible(Chain[i])
                  THEN (IF Chain[i].type = "Put" THEN 0 - 1 ELSE 1)
                       * UnitGex(gexCall.stock.spot, K, Chain[i].impliedVolatility)
                       * Chain[i].openInterest
                  ELSE 0)
    IN  S[Len(Chain)]

\* the open interest the eligible contracts of the chain hold at strike K
OpenInterestAt(K) ==
    LET S[i \in 0..Len(Chain)] ==
            IF i = 0 THEN 0
            ELSE S[i - 1] + (IF Chain[i].strike = K /\ Eligible(Chain[i])
                             THEN Chain[i].openInterest ELSE 0)
    IN  S[Len(Chain)]

\* C5 (as claimed): on success every row's gex and open-interest sum come from the
\* eligible contracts of its strike alone, and a strike without an eligible
\* contract has no row.
C5_IneligibleContractsInNoRow ==
    Succeeded =>
        \A r \in {GexRows[i] : i \in 1..Len(GexRows)} :
            /\ \E i \in 1..Len(Chain) : Chain[i].strike = r.strike /\ Eligible(Chain[i])
            /\ r.gex = SignedGexAt(r.strike)
            /\ r.oi = OpenInterestAt(r.strike)

\* the same, for the chains that miss no openInterest cell
C5_HoldsWithoutMissingCells ==
    (\A i \in 1..Len(Chain) : Chain[i].openInterest # NaN) => C5_IneligibleContractsInNoRow

\* C6: the call never raises; without today's expiration it returns no rows and
\* "No 0DTE contracts today" (the chain is not asked for); an empty chain or one
\* without volume / openInterest columns returns no rows and a reason; every
\* failed request and every chain no contract of which passes the filter returns
\* no rows and a reason; whenever result[0] is None, result[2] is the reason.
C6_FailureIsReturnedAsReason ==
    gexOutcome.done =>
        LET st == gexCall.stock
            reached == st.history = "ok" /\ st.expirations = "ok"
            listed == gexCall.today \in st.options
            noRows == Returned[1] = None /\ Len(Returned) >= 3 /\ Returned[3].tag = "str"
        IN  /\ ~gexOutcome.escaped
            /\ Len(Returned) >= 3
            /\ Returned[1].tag \in {"None", "DataFrame"}
            /\ Returned[1] = None => Returned[3].tag = "str"
            /\ (reached /\ ~listed) =>
                  noRows /\ Returned[3] = Str("No 0DTE contracts today")
            /\ (reached /\ listed /\ st.chain = "ok"
                  /\ (Chain = <<>> \/ ~({"volume", "openInterest"} \subseteq st.columns)))
                  => noRows
            /\ (st.history # "ok" \/ st.expirations # "ok" \/ (listed /\ st.chain # "ok"))
                  => noRows
            /\ (\A i \in 1..Len(Chain) : ~Eligible(Chain[i]) /\ Chain[i].openInterest # NaN)
                  => noRows

C6_Witness ==
    /\ gexOutcome.done
    /\ gexCall.stock.columns = AllColumns
    /\ Len(Chain) = 2
    /\ \A i \in 1..Len(Chain) : ~Eligible(Chain[i])
    /\ Returned[1] = None
    /\ Returned[3] = Str("Error: 'strike'")

\* C9: on success the rows have distinct strikes, each row's gex is the sum of +g
\* for the eligible Calls and -g for the eligible Puts of its strike, totalGex is
\* the sum of the rows' gex, and a chain of one Call and one Put of the same
\* strike, iv and open interest gives one row of gex exactly 0.
C9_SignedSumPerStrike ==
    Succeeded =>
        /\ \A i, j \in 1..Len(GexRows) : GexRows[i].strike = GexRows[j].strike => i = j
        /\ \A i \in 1..Len(GexRows) : GexRows[i].gex = SignedGexAt(GexRows[i].strike)
        /\ Returned[3] = Num(LET S[i \in 0..Len(GexRows)] ==
                                    IF i = 0 THEN 0 ELSE S[i - 1] + GexRows[i].gex
                             IN  S[Len(GexRows)])
        /\ (/\ Len(gexCall.stock.calls) = 1
            /\ Len(gexCall.stock.puts) = 1
            /\ gexCall.stock.calls = gexCall.stock.puts
            /\ Eligible(gexCall.stock.calls[1]))
              => Len(GexRows) = 1 /\ GexRows[1].gex = 0 /\ Returned[3] = Num(0)

C9_Witness ==
    /\ Succeeded
    /\ gexCall.stock.calls = <<Leg(500, 20, 1000, 200)>>
    /\ gexCall.stock.puts = <<Leg(500, 20, 1000, 200), Leg(495, 20, 40, 50)>>
    /\ Len(GexRows) = 2
    /\ GexRows[2].gex = 0
    /\ GexRows[1].gex < 0

Reverse(seq) == [i \in 1..Len(seq) |-> seq[Len(seq) + 1 - i]]

\* C10: on success there is at least one row, maxWall is a row of the largest
\* absolute gex, among the rows of that absolute gex it is the one of the lowest
\* strike, and the calls and the puts listed in the opposite order give the same
\* maxWall.
C10_MaxWallIsLowestStrikeOfLargest ==
    Succeeded =>
        LET wall == Returned[4].row
            st == gexCall.stock
            other == compute_0dte_gex_and_unusual(gexCall.ticker, gexCall.today,
                        [t \in Tickers |->
                            [st EXCEPT !.calls = Reverse(st.calls),
                                       !.puts = Reverse(st.puts)]])
        IN  /\ Len(GexRows) >= 1
            /\ Returned[4].tag = "Series"
            /\ \E i \in 1..Len(GexRows) : GexRows[i] = wall
            /\ \A i \in 1..Len(GexRows) :
                  /\ Abs(GexRows[i].gex) <= Abs(wall.gex)
                  /\ Abs(GexRows[i].gex) = Abs(wall.gex) => wall.strike <= GexRows[i].strike
            /\ other.value[4] = Returned[4]

C10_Witness ==
    /\ Succeeded
    /\ Len(GexRows) = 2
    /\ Abs(GexRows[1].gex) = Abs(GexRows[2].gex)
    /\ Returned[4].row.strike = 495
    /\ \E i \in 1..Len(Chain) : Chain[i].strike = 500 /\ Eligible(Chain[i])

(***************************************************************************)
(* Properties of the alert log and of the cache                            *)
(***************************************************************************)
\* C7 (as claimed): from the start-up session state every trigger_alert call ends
\* without an error, and after n calls the alert log holds the last min(n, 50)
\* entries in call order, the newest last.
C7_EveryAlertIsLogged ==
    Len(alertCalls) > 0 =>
        /\ alertRaised = "None"
        /\ alert_log.kind = "list"
        /\ IsTailOf(alert_log.items, alertCalls, 50)

\* C8 (as claimed): the result a call returns was computed for the ticker of the
\* call and for the date of the call; it comes from the cache only when stored
\* less than 120 seconds before, and is computed anew otherwise.
C8_ServedForTickerAndDate ==
    served.called =>
        /\ served.entry.forTicker = served.ticker
        /\ served.entry.asOf = Today(served.at)
        /\ served.hit => served.at - served.entry.storedAt < 120
        /\ ~served.hit => served.entry.storedAt = served.at

\* the same without the date: ticker and ttl alone
C8_TickerAndTtlHold ==
    served.called =>
        /\ served.entry.forTicker = served.ticker
        /\ served.hit => served.at - served.entry.storedAt < 120
        /\ ~served.hit => served.entry.storedAt = served.at

====
